---- MODULE Spec2Model ----
(***************************************************************************)
(* A model of the KAdsorbent grid-snapping component                       *)
(* (src/src/components/KAdsorbent.vue) and of the helpers it imports from  *)
(* the script module (src/unnamed/part_001, lines 1-146): the occupancy    *)
(* set corner_stack, the placement pass autoOccupy with its backtracking   *)
(* search searchMyPlace, the render entry main_render, and the per-element *)
(* drag controller moveElement.                                            *)
(*                                                                         *)
(* Naming follows the source.  Beware that the source swaps the words      *)
(* "row" and "col": props.rows / r_row_la_num count the cells along the    *)
(* horizontal axis, props.cols / r_col_la_num the cells along the vertical *)
(* axis, min_rows is a WIDTH span (cells along a row) and min_cols a       *)
(* HEIGHT span.  Inside autoOccupy, rn = r_col_la_num is the number of     *)
(* grid rows and cn = r_row_la_num the number of grid columns.             *)
(*                                                                         *)
(* Numbers are integers: the inputs are drawn so that every division the   *)
(* code performs on the grid geometry is exact.  A JavaScript number that  *)
(* may be undefined or NaN is modelled as a sequence of length at most     *)
(* one: <<n>> is the number n and <<>> is undefined/NaN.                   *)
(*                                                                         *)
(* The DOM is the browser's: element.style.transform keeps a value only if *)
(* it is valid CSS, and serialises a zero length as "0px".                 *)
(***************************************************************************)
EXTENDS Integers, Sequences, FiniteSets, TLC

(***************************************************************************)
(* Bounds of the model.                                                    *)
(***************************************************************************)
\* the largest number of cells along either axis of the grid
MaxGrid == 3
\* the largest number of children in the slot
MaxChildren == 2
\* pointer coordinates of drag events range over 0..MaxPointer
MaxPointer == 1
\* drag offsets are kept within -MaxOffset..MaxOffset
MaxOffset == 2
\* the arguments division is applied to: lengths 0..MaxLength, pitches 1..MaxPitch
MaxLength == 12
MaxPitch == 5
\* the offsets X, Y of the strings the codec is applied to: 0..MaxCoord
MaxCoord == 7
\* the tracked element's left and top relative to the canvas: 0..MaxTrack
MaxTrack == 3

\* cell pitches (canvas width / props.rows) the canvas sizes are drawn from
CellSizes == {2, 3}
\* props.gap
Gaps == {0, 1}
\* children's box sizes (offsetWidth, offsetHeight) in pixels
Sizes == {0, 5}

(***************************************************************************)
(* JavaScript values.                                                      *)
(***************************************************************************)
NaN == <<>>
Num(n) == <<n>>
IsNum(a) == a # NaN
\* a - b on numbers that may be undefined/NaN
JSSub(a, b) == IF IsNum(a) /\ IsNum(b) THEN Num(a[1] - b[1]) ELSE NaN

Range(s) == {s[i] : i \in 1..Len(s)}

(***************************************************************************)
(* The offset strings.  A transform string is a record of its tokens:      *)
(* fn is "translate3d" or "" (a string without translate3d), x and y the   *)
(* numbers printed before "px", z the text of the third component.         *)
(***************************************************************************)
EmptyString == [fn |-> "", x |-> NaN, y |-> NaN, z |-> ""]

\* `translate3d(${xPos}px, ${yPos}px, 0)`
setTranslate(xPos, yPos) == [fn |-> "translate3d", x |-> xPos, y |-> yPos, z |-> "0"]

\* The value element.style.transform holds after `style.transform = s`:
\* an invalid value (NaNpx) is dropped and the old value kept; a zero
\* length is serialised with its unit.
StyleTransform(old, s) ==
  IF s.fn = "" THEN s
  ELSE IF IsNum(s.x) /\ IsNum(s.y) THEN [s EXCEPT !.z = "0px"]
  ELSE old

parseTranslate3dSigned(str) ==
  IF str.fn = "translate3d" /\ IsNum(str.x) /\ IsNum(str.y) /\ str.z = "0px"
  THEN <<str.x[1], str.y[1], 0>>
  ELSE <<>>
\* /translate3d\((\d+)px,\s*(\d+)px,\s*(\d+)px\)/ : \d+ matches no sign
parseTranslate3dString(str) ==
  IF /\ str.fn = "translate3d"
     /\ IsNum(str.x) /\ IsNum(str.y)
     /\ str.x[1] >= 0 /\ str.y[1] >= 0
     /\ str.z = "0px"
  THEN <<str.x[1], str.y[1], 0>>
  ELSE <<>>

(***************************************************************************)
(* Ceiling division.                                                       *)
(***************************************************************************)
\* a % b of JavaScript for b # 0: the sign of the dividend, the magnitude
\* of |a| modulo |b|
JSRem(a, b) ==
  LET m == IF b < 0 THEN -b ELSE b
  IN  IF a >= 0 THEN a % m ELSE -((-a) % m)

divisionFloor(a, b) == IF a <= 0 THEN 1 ELSE a \div b
\* Math.floor(a / b) is a \div b for every b # 0.  No branch looks at b: a
\* divisor <= 0 is computed with like any other (b = 0 with a > 0 makes the
\* quotient Infinity, which is outside the integers of this model).
division(a, b) ==
  LET quotient == a \div b
      remainder == JSRem(a, b)
  IN  IF a <= 0 THEN 1
      ELSE IF remainder = 0 THEN quotient ELSE quotient + 1

(***************************************************************************)
(* Cell keys and blocks of cells.                                          *)
(***************************************************************************)
\* j + '' + k, `${i}${j}`
Key(j, k) == ToString(j) \o ToString(k)

\* The keys of the block of `width` x `height` cells whose top-left cell is
\* (topOffset, leftOffset), in the order the loops push them.
RECURSIVE SubMatrixFrom(_, _, _, _, _, _)
SubMatrixFrom(i, j, leftOffset, topOffset, width, height) ==
  IF i >= topOffset + height THEN <<>>
  ELSE IF j >= leftOffset + width
       THEN SubMatrixFrom(i + 1, leftOffset, leftOffset, topOffset, width, height)
       ELSE <<Key(i, j)>> \o SubMatrixFrom(i, j + 1, leftOffset, topOffset, width, height)

getSubMatrix(leftOffset, topOffset, width, height) ==
  SubMatrixFrom(topOffset, leftOffset, leftOffset, topOffset, width, height)

(***************************************************************************)
(* Placement Search.  fro = <<row, column>> is the cell the scan starts    *)
(* at; min_cols is the height span and min_rows the width span.            *)
(***************************************************************************)
\* The inner loop `for (let k = fro[1]; k < cn; k++)` over row j, entered
\* at column k with zrs cells of the row already counted.
RECURSIVE ScanRow(_, _, _, _, _, _, _)
ScanRow(stack, j, k, zrs, zds, min_rows, cn) ==
  IF k >= cn THEN [occupied |-> FALSE, k |-> k, zds |-> zds]
  ELSE IF Key(j, k) \notin stack
       THEN IF zrs + 1 = min_rows
            THEN [occupied |-> FALSE, k |-> k, zds |-> Append(zds, Key(j, k))]
            ELSE ScanRow(stack, j, k + 1, zrs + 1, Append(zds, Key(j, k)), min_rows, cn)
       ELSE [occupied |-> TRUE, k |-> k, zds |-> zds]

RECURSIVE SearchRowsWrapping(_, _, _, _, _, _, _, _, _, _)
SearchRowsWrapping(stack, min_cols, min_rows, fro, j, zcs, zds, rn, cn, restarts) ==
  IF j >= rn
  THEN [placed |-> FALSE, fro |-> fro, zds |-> zds, restarts |-> restarts,
        starts |-> <<fro>>, returned |-> "undefined"]
  ELSE LET row == ScanRow(stack, j, fro[2], 0, zds, min_rows, cn)
       IN  IF row.occupied
           THEN LET again == SearchRowsWrapping(stack, min_cols, min_rows, <<j + 1, 0>>,
                                                j + 1, 0, <<>>, rn, cn, restarts + 1)
                IN  [again EXCEPT !.starts = <<fro>> \o @]
           ELSE IF zcs + 1 = min_cols
                THEN [placed |-> TRUE, fro |-> fro, zds |-> row.zds, restarts |-> restarts,
                      starts |-> <<fro>>, returned |-> "undefined"]
                ELSE SearchRowsWrapping(stack, min_cols, min_rows, fro, j + 1, zcs + 1,
                                        row.zds, rn, cn, restarts)

\* The outer loop `for (let j = fro[0]; j < rn; j++)`, entered at row j with
\* zcs rows already counted, and the recursive restart behind an occupied
\* cell.  The result says whether a transform was written (placed), the
\* starting cell of the invocation that ended the search, the keys it
\* collected in zds (claimed at line 469 only when it placed), the number of
\* restarts, the starting cells of the successive invocations (starts), and
\* the value the call returned: the function has no return statement but the
\* restart's, so it is undefined whether the loop ended by the break at line
\* 470 or ran out of rows.
RECURSIVE SearchRows(_, _, _, _, _, _, _, _, _, _)
SearchRows(stack, min_cols, min_rows, fro, j, zcs, zds, rn, cn, restarts) ==
  IF j >= rn
  THEN [placed |-> FALSE, fro |-> fro, zds |-> zds, restarts |-> restarts,
        starts |-> <<fro>>, returned |-> "undefined"]
  ELSE LET row == ScanRow(stack, j, fro[2], 0, zds, min_rows, cn)
       IN  IF row.occupied
           THEN LET again == SearchRows(stack, min_cols, min_rows, <<j, row.k + 1>>, j, 0,
                                        <<>>, rn, cn, restarts + 1)
                IN  [again EXCEPT !.starts = <<fro>> \o @]
           ELSE IF zcs + 1 = min_cols
                THEN [placed |-> TRUE, fro |-> fro, zds |-> row.zds, restarts |-> restarts,
                      starts |-> <<fro>>, returned |-> "undefined"]
                ELSE SearchRows(stack, min_cols, min_rows, fro, j + 1, zcs + 1, row.zds,
                                rn, cn, restarts)

searchMyPlace(stack, min_cols, min_rows, fro, rn, cn) ==
  SearchRows(stack, min_cols, min_rows, fro, fro[1], 0, <<>>, rn, cn, 0)

(***************************************************************************)
(* The state.  props: the component's props (KAdsorbent.vue 44-66);        *)
(* children: the slot's elements, box.children (355-356); controllers: the *)
(* moveElement closures registered on each element (part_001 6-16);        *)
(* corner_stack, movable_activated, first_draw (69-71); r: the r_*         *)
(* geometry (72-76); canvas: the canvas main_render creates (482-497), its *)
(* mousemove listeners and the cells painted in the hover colour;          *)
(* boxListeners: the mousemove listeners on the box (330-332); redraws:    *)
(* the redraw events of the latest pass (403-411).  History of what the    *)
(* code did, for the properties: placements (the cells each placement of   *)
(* the latest pass claimed), pass (whether a pass ran, and corner_stack    *)
(* and the children's transforms at its start), lastEvent, gesture (the    *)
(* transform and pointer at the latest mousedown on each element, and      *)
(* whether a mouseup has followed it), probe (one call of a pure function).*)
(***************************************************************************)
VARIABLES props, children, controllers, corner_stack, movable_activated,
          first_draw, r, canvas, boxListeners, redraws, placements, pass,
          lastEvent, gesture, probe

vars == <<props, children, controllers, corner_stack, movable_activated,
          first_draw, r, canvas, boxListeners, redraws, placements, pass,
          lastEvent, gesture, probe>>

(***************************************************************************)
(* Grid geometry.                                                          *)
(***************************************************************************)
\* init_var: the r_* variables computed from the props and the canvas.
\* The inputs keep props.width / props.rows and props.height / props.cols
\* exact.
init_var(p, cv) ==
  LET w0 == IF p.laWidth # 0 THEN p.laWidth ELSE p.width \div p.rows
      h0 == p.height \div p.cols
      h1 == IF p.aspectRatio # 0 THEN w0 * p.aspectRatio ELSE h0
      fit == p.cover /\ p.laWidth = 0
      refit == p.cover /\ p.laWidth # 0
  IN  [r_width      |-> IF fit /\ p.rows # 0 THEN cv.width \div p.rows - p.gap ELSE w0,
       r_height     |-> IF fit /\ p.cols # 0 THEN cv.height \div p.cols - p.gap ELSE h1,
       r_gap        |-> p.gap,
       r_row_la_num |-> IF refit THEN (cv.width - p.gap) \div (w0 + p.gap) ELSE p.rows,
       r_col_la_num |-> IF refit THEN (cv.height - p.gap) \div (h1 + p.gap) ELSE p.cols]

(***************************************************************************)
(* The drag controller's closure, as moveElement creates it.               *)
(***************************************************************************)
moveElement ==
  [isDragging |-> FALSE,
   currentX |-> Num(0), currentY |-> Num(0),
   initialX |-> Num(0), initialY |-> Num(0),
   xOffset  |-> Num(0), yOffset  |-> Num(0),
   documentMousemove |-> FALSE]

(***************************************************************************)
(* The placement pass.  Its local state is the record st: the children,    *)
(* their controllers, the occupancy set, the queue cmn of children without *)
(* an offset with the spans mcr pushed beside it, the function-level       *)
(* variables xPos and yPos, the redraw events emitted and the log of the   *)
(* cells claimed.                                                          *)
(***************************************************************************)
\* One iteration of `for (let i = 0; i < children.length; i++)`.
ScanChild(st, i, p, activated, lw, lh, lg) ==
  LET child == st.children[i]
      n3d == parseTranslate3dString(child.transform)
      min_rows == division(child.offsetWidth, lw + lg)
      min_cols == division(child.offsetHeight, lh + lg)
      w == min_rows * lw + lg * (min_rows - 1)
      h == min_cols * lh + lg * (min_cols - 1)
      honors == p.autoPlace /\ Len(n3d) > 0
      queues == p.autoPlace /\ Len(n3d) = 0
      ofl == (n3d[1] - lg) \div (lw + lg)
      oft == (n3d[2] - lg) \div (lh + lg)
      xPos == IF honors THEN Num(lg + ofl * (lw + lg)) ELSE st.xPos
      yPos == IF honors THEN Num(lg + oft * (lw + lg)) ELSE st.yPos
      subMatrix == IF honors THEN getSubMatrix(ofl, oft, min_rows, min_cols) ELSE <<>>
      sized == IF p.autoSize
               THEN [child EXCEPT !.offsetWidth = w, !.offsetHeight = h]
               ELSE child
      moved == [sized EXCEPT
                  !.position = "absolute",
                  !.transform = IF honors
                                THEN StyleTransform(@, setTranslate(xPos, yPos))
                                ELSE @]
  IN  [st EXCEPT
         !.children[i] = moved,
         !.controllers[i] = IF p.movable /\ ~activated THEN Append(@, moveElement) ELSE @,
         !.stack = @ \cup Range(subMatrix),
         !.cmn = IF queues THEN Append(@, i) ELSE @,
         !.mcr = IF queues THEN Append(@, <<min_cols, min_rows>>) ELSE @,
         !.xPos = xPos,
         !.yPos = yPos,
         !.redraws = Append(@, [width |-> w, height |-> h, row |-> min_rows,
                                col |-> min_cols, left |-> xPos, top |-> yPos,
                                dom |-> i]),
         !.placements = IF honors
                        THEN Append(@, [kind |-> "offset", child |-> i,
                                        min_cols |-> min_cols, min_rows |-> min_rows,
                                        placed |-> TRUE, fro |-> <<oft, ofl>>,
                                        returned |-> "", restarts |-> 0,
                                        starts |-> <<>>, scanned |-> {},
                                        was |-> child.transform, tra |-> moved.transform,
                                        before |-> st.stack, cells |-> Range(subMatrix),
                                        after |-> st.stack \cup Range(subMatrix)])
                        ELSE @]

RECURSIVE ScanChildren(_, _, _, _, _, _, _)
ScanChildren(st, i, p, activated, lw, lh, lg) ==
  IF i > Len(st.children) THEN st
  ELSE ScanChildren(ScanChild(st, i, p, activated, lw, lh, lg), i + 1, p, activated, lw, lh, lg)

PlacedOverwriting(st, c, pop, found, lw, lh, lg) ==
  LET xPos == lg + found.fro[2] * (lw + lg)
      yPos == lg + found.fro[1] * (lh + lg)
      transform == IF found.placed
                   THEN StyleTransform(st.children[c].transform,
                                       setTranslate(Num(xPos), Num(yPos)))
                   ELSE st.children[c].transform
      stack == IF found.placed THEN Range(found.zds) ELSE st.stack
  IN  [st EXCEPT
         !.mcr = SubSeq(@, 1, Len(@) - 1),
         !.children[c].transform = transform,
         !.stack = stack,
         !.placements = Append(@, [kind |-> "search", child |-> c,
                                   min_cols |-> pop[1], min_rows |-> pop[2],
                                   placed |-> found.placed, fro |-> found.fro,
                                   returned |-> found.returned,
                                   restarts |-> found.restarts, starts |-> found.starts,
                                   scanned |-> Range(found.zds),
                                   was |-> st.children[c].transform, tra |-> transform,
                                   before |-> st.stack,
                                   cells |-> IF found.placed THEN Range(found.zds) ELSE {},
                                   after |-> stack])]

PlacedClaimingScanned(st, c, pop, found, lw, lh, lg) ==
  LET xPos == lg + found.fro[2] * (lw + lg)
      yPos == lg + found.fro[1] * (lh + lg)
      transform == IF found.placed
                   THEN StyleTransform(st.children[c].transform,
                                       setTranslate(Num(xPos), Num(yPos)))
                   ELSE st.children[c].transform
      stack == st.stack \cup Range(found.zds)
  IN  [st EXCEPT
         !.mcr = SubSeq(@, 1, Len(@) - 1),
         !.children[c].transform = transform,
         !.stack = stack,
         !.placements = Append(@, [kind |-> "search", child |-> c,
                                   min_cols |-> pop[1], min_rows |-> pop[2],
                                   placed |-> found.placed, fro |-> found.fro,
                                   returned |-> found.returned,
                                   restarts |-> found.restarts, starts |-> found.starts,
                                   scanned |-> Range(found.zds),
                                   was |-> st.children[c].transform, tra |-> transform,
                                   before |-> st.stack,
                                   cells |-> Range(found.zds),
                                   after |-> stack])]

\* The effects of one searchMyPlace(pop[0], pop[1], c) whose scan ended as
\* `found`: the transform written and the keys claimed.
Placed(st, c, pop, found, lw, lh, lg) ==
  LET xPos == lg + found.fro[2] * (lw + lg)
      yPos == lg + found.fro[1] * (lh + lg)
      transform == IF found.placed
                   THEN StyleTransform(st.children[c].transform,
                                       setTranslate(Num(xPos), Num(yPos)))
                   ELSE st.children[c].transform
      stack == IF found.placed THEN st.stack \cup Range(found.zds) ELSE st.stack
  IN  [st EXCEPT
         !.mcr = SubSeq(@, 1, Len(@) - 1),
         !.children[c].transform = transform,
         !.stack = stack,
         !.placements = Append(@, [kind |-> "search", child |-> c,
                                   min_cols |-> pop[1], min_rows |-> pop[2],
                                   placed |-> found.placed, fro |-> found.fro,
                                   returned |-> found.returned,
                                   restarts |-> found.restarts, starts |-> found.starts,
                                   scanned |-> Range(found.zds),
                                   was |-> st.children[c].transform, tra |-> transform,
                                   before |-> st.stack,
                                   cells |-> IF found.placed THEN Range(found.zds) ELSE {},
                                   after |-> stack])]

\* One callback of `cmn.forEach(c => { let pop = mcr.pop(); searchMyPlace(pop[0], pop[1], c) })`
\* for the n-th queued child c, with pop the span popped for it.
SearchFor(st, c, pop, lw, lh, lg, rn, cn) ==
  Placed(st, c, pop, searchMyPlace(st.stack, pop[1], pop[2], <<0, 0>>, rn, cn), lw, lh, lg)

PlaceQueuedLastFirst(st, n, lw, lh, lg, rn, cn) ==
  SearchFor(st, st.cmn[Len(st.cmn) - n + 1], st.mcr[Len(st.mcr)], lw, lh, lg, rn, cn)
PlaceQueued(st, n, lw, lh, lg, rn, cn) ==
  SearchFor(st, st.cmn[n], st.mcr[Len(st.mcr)], lw, lh, lg, rn, cn)

RECURSIVE PlaceAllQueued(_, _, _, _, _, _, _)
PlaceAllQueued(st, n, lw, lh, lg, rn, cn) ==
  IF n > Len(st.cmn) THEN st
  ELSE PlaceAllQueued(PlaceQueued(st, n, lw, lh, lg, rn, cn), n + 1, lw, lh, lg, rn, cn)

autoOccupyUnguarded(chs, ctl, stack, p, activated, lw, lh, lg, rn, cn) ==
  LET st0 == [children |-> chs, controllers |-> ctl, stack |-> stack,
              cmn |-> <<>>, mcr |-> <<>>, xPos |-> NaN, yPos |-> NaN,
              redraws |-> <<>>, placements |-> <<>>]
      scanned == ScanChildren(st0, 1, p, FALSE, lw, lh, lg)
  IN  PlaceAllQueued(scanned, 1, lw, lh, lg, rn, cn)

\* autoOccupy(lw, lh, lg, rn, cn) run on the children chs with controllers
\* ctl and occupancy set stack.
autoOccupy(chs, ctl, stack, p, activated, lw, lh, lg, rn, cn) ==
  LET st0 == [children |-> chs, controllers |-> ctl, stack |-> stack,
              cmn |-> <<>>, mcr |-> <<>>, xPos |-> NaN, yPos |-> NaN,
              redraws |-> <<>>, placements |-> <<>>]
      scanned == ScanChildren(st0, 1, p, activated, lw, lh, lg)
  IN  PlaceAllQueued(scanned, 1, lw, lh, lg, rn, cn)

(***************************************************************************)
(* The state after the component's setup, before it is mounted.            *)
(***************************************************************************)
\* props.aspectRatio
AspectRatios == {1, 2}
\* props.cover
Covers == {FALSE}
\* props.pointer
Pointers == {TRUE}

NoEvent == [kind |-> "none", child |-> 0, target |-> "", x |-> 0, y |-> 0]
NoGesture ==
  [target |-> "", fromIdle |-> FALSE, open |-> FALSE, base |-> EmptyString,
   downX |-> 0, downY |-> 0]
NoProbe == [fn |-> "", a |-> 0, b |-> 0, out |-> <<>>]

\* The canvas sizes (props.width, props.height): every cell pitch of
\* CellSizes on a canvas that holds props.rows x props.cols cells.
CanvasSizes(p) == {<<p.rows * c, p.cols * c>> : c \in CellSizes}

PropsInit ==
  {p \in [width : 1..(MaxGrid * 3), height : 1..(MaxGrid * 3),
          rows : 1..MaxGrid, cols : 1..MaxGrid,
          gap : Gaps, laWidth : {0}, aspectRatio : AspectRatios, cover : Covers,
          pointer : Pointers, movable : {TRUE}, autoSize : {TRUE}, autoPlace : {TRUE}] :
     <<p.width, p.height>> \in CanvasSizes(p)}

ChildInit ==
  [offsetWidth : Sizes, offsetHeight : Sizes, transform : {EmptyString},
   position : {"static"}]

\* The state after setup with the props drawn from P and each child from C.
SetupOf(P, C) ==
  /\ props \in P
  /\ \E n \in 0..MaxChildren :
        /\ children \in [1..n -> C]
        /\ controllers = [i \in 1..n |-> <<>>]
        /\ gesture = [i \in 1..n |-> NoGesture]
  /\ corner_stack = {}
  /\ movable_activated = FALSE
  /\ first_draw = TRUE
  /\ r = [r_width |-> 0, r_height |-> 0, r_gap |-> 0, r_row_la_num |-> 0, r_col_la_num |-> 0]
  /\ canvas = [exists |-> FALSE, width |-> 0, height |-> 0, mousemove |-> 0,
               hovered |-> {}]
  /\ boxListeners = 0
  /\ redraws = <<>>
  /\ placements = <<>>
  /\ pass = [mounted |-> FALSE, rendered |-> FALSE, start |-> {}, transforms |-> <<>>]
  /\ lastEvent = NoEvent

Setup == SetupOf(PropsInit, ChildInit)

Init == Setup /\ probe = NoProbe

(***************************************************************************)
(* Rendering.                                                              *)
(***************************************************************************)
\* main_render with render and autoOccupy, under the props p.
main_render(p) ==
  IF p.width > 0 /\ p.height > 0
  THEN \E cv \in {[exists |-> TRUE, width |-> p.width, height |-> p.height, mousemove |-> 0,
                    hovered |-> {}]} :
       \E g \in {init_var(p, cv)} :
       \E st \in {autoOccupy(children, controllers, corner_stack, p, movable_activated,
                             g.r_width, g.r_height, g.r_gap, g.r_col_la_num, g.r_row_la_num)} :
           /\ r' = g
           /\ children' = st.children
           /\ controllers' = st.controllers
           /\ corner_stack' = st.stack
           /\ redraws' = st.redraws
           /\ placements' = st.placements
           /\ movable_activated' = TRUE
           /\ canvas' = [cv EXCEPT !.mousemove = IF p.pointer THEN 1 ELSE 0]
           /\ boxListeners' = IF ~p.pointer /\ first_draw THEN boxListeners + 1
                               ELSE boxListeners
           /\ first_draw' = FALSE
           /\ pass' = [mounted |-> TRUE, rendered |-> TRUE, start |-> corner_stack,
                       transforms |-> [i \in 1..Len(children) |-> children[i].transform]]
  ELSE /\ pass' = [pass EXCEPT !.mounted = TRUE, !.rendered = FALSE]
       /\ redraws' = <<>>
       /\ UNCHANGED <<r, children, controllers, corner_stack, placements,
                      movable_activated, canvas, boxListeners, first_draw>>

\* onMounted
Mount ==
  /\ ~pass.mounted
  /\ main_render(props)
  /\ lastEvent' = [NoEvent EXCEPT !.kind = "mount"]
  /\ UNCHANGED <<props, gesture, probe>>

\* watch([props.width, props.height]): the parent changes the canvas size
Resize ==
  /\ pass.mounted
  /\ \E wh \in CanvasSizes(props) \cup {<<0, 0>>} :
        /\ wh # <<props.width, props.height>>
        /\ \E p \in {[props EXCEPT !.width = wh[1], !.height = wh[2]]} :
              props' = p /\ main_render(p)
  /\ lastEvent' = [NoEvent EXCEPT !.kind = "resize"]
  /\ UNCHANGED <<gesture, probe>>

Next == Mount \/ Resize

Spec == Init /\ [][Next]_vars

(***************************************************************************)
(* The drag controller.  c is one closure of moveElement, tsf the          *)
(* element's style.transform, e the mouse event: its clientX, clientY and  *)
(* its target relative to the element ("self", a "descendant", or an       *)
(* "other" node outside the element).                                      *)
(***************************************************************************)
dragStartAnyTarget(c, tsf, e) ==
  LET ns == parseTranslate3dString(tsf)
      reads == tsf.fn = "translate3d"
      xOffset == IF reads THEN (IF Len(ns) > 0 THEN Num(ns[1]) ELSE NaN) ELSE c.xOffset
      yOffset == IF reads THEN (IF Len(ns) > 1 THEN Num(ns[2]) ELSE NaN) ELSE c.yOffset
  IN  [c EXCEPT !.xOffset = xOffset, !.yOffset = yOffset,
                !.initialX = JSSub(Num(e.clientX), xOffset),
                !.initialY = JSSub(Num(e.clientY), yOffset),
                !.isDragging = TRUE,
                !.documentMousemove = TRUE]
dragStart(c, tsf, e) ==
  LET ns == parseTranslate3dString(tsf)
      reads == tsf.fn = "translate3d"
      xOffset == IF reads THEN (IF Len(ns) > 0 THEN Num(ns[1]) ELSE NaN) ELSE c.xOffset
      yOffset == IF reads THEN (IF Len(ns) > 1 THEN Num(ns[2]) ELSE NaN) ELSE c.yOffset
  IN  [c EXCEPT !.xOffset = xOffset, !.yOffset = yOffset,
                !.initialX = JSSub(Num(e.clientX), xOffset),
                !.initialY = JSSub(Num(e.clientY), yOffset),
                !.isDragging = IF e.target = "self" THEN TRUE ELSE @,
                !.documentMousemove = IF e.target = "self" THEN TRUE ELSE @]

dragEnd(c) ==
  [c EXCEPT !.initialX = c.currentX, !.initialY = c.currentY,
            !.isDragging = FALSE, !.documentMousemove = FALSE]

drag(c, e) ==
  IF c.isDragging
  THEN LET currentX == JSSub(Num(e.clientX), c.initialX)
           currentY == JSSub(Num(e.clientY), c.initialY)
       IN  [c EXCEPT !.currentX = currentX, !.currentY = currentY,
                     !.xOffset = currentX, !.yOffset = currentY]
  ELSE c

\* The document's mousemove listeners of one element run in turn: each
\* closure whose listener is attached runs drag and writes the transform.
RECURSIVE DragAll(_, _, _, _)
DragAll(ctls, k, tsf, e) ==
  IF k > Len(ctls) THEN [controllers |-> ctls, transform |-> tsf]
  ELSE IF ctls[k].documentMousemove
       THEN LET c == drag(ctls[k], e)
            IN  DragAll([ctls EXCEPT ![k] = c], k + 1,
                        IF ctls[k].isDragging
                        THEN StyleTransform(tsf, setTranslate(c.currentX, c.currentY))
                        ELSE tsf,
                        e)
       ELSE DragAll(ctls, k + 1, tsf, e)

Pointer == 0..MaxPointer
Targets == {"self", "descendant", "other"}

\* The pixel offset a stored transform moves the element by.
OffsetOf(tsf) == IF tsf.fn = "" THEN <<0, 0>> ELSE <<tsf.x[1], tsf.y[1]>>
InOffsetBound(tsf) ==
  LET o == OffsetOf(tsf)
  IN  o[1] \in -MaxOffset..MaxOffset /\ o[2] \in -MaxOffset..MaxOffset

Dragging(i) == \E k \in 1..Len(controllers[i]) : controllers[i][k].isDragging

\* A mousedown whose target is child i, inside child i, or outside it: the
\* element's mousedown listeners run unless the target is outside.
MouseDown ==
  /\ pass.mounted
  /\ \E i \in 1..Len(children), t \in Targets, x \in Pointer, y \in Pointer :
        /\ \E e \in {[clientX |-> x, clientY |-> y, target |-> t]} :
              controllers' = [controllers EXCEPT ![i] =
                  IF t = "other" THEN @
                  ELSE [k \in 1..Len(@) |-> dragStart(@[k], children[i].transform, e)]]
        /\ gesture' = [gesture EXCEPT ![i] =
              IF t = "other" THEN @
              ELSE [target |-> t, fromIdle |-> ~Dragging(i), open |-> (@.open \/ t = "self"),
                    base |-> children[i].transform, downX |-> x, downY |-> y]]
        /\ lastEvent' = [kind |-> "mousedown", child |-> i, target |-> t, x |-> 0, y |-> 0]
  /\ redraws' = <<>>
  /\ UNCHANGED <<props, children, corner_stack, movable_activated, first_draw, r,
                 canvas, boxListeners, placements, pass, probe>>

\* A mouseup whose target is child i, inside child i, or outside it.
MouseUp ==
  /\ pass.mounted
  /\ \E i \in 1..Len(children), t \in Targets :
        /\ controllers' = [controllers EXCEPT ![i] =
              IF t = "other" THEN @ ELSE [k \in 1..Len(@) |-> dragEnd(@[k])]]
        /\ lastEvent' = [kind |-> "mouseup", child |-> i, target |-> t, x |-> 0, y |-> 0]
  /\ gesture' = [j \in 1..Len(gesture) |-> [gesture[j] EXCEPT !.open = FALSE]]
  /\ redraws' = <<>>
  /\ UNCHANGED <<props, children, corner_stack, movable_activated, first_draw, r,
                 canvas, boxListeners, placements, pass, probe>>

\* A mousemove anywhere in the document.
MouseMove ==
  /\ pass.mounted
  /\ \E x \in Pointer, y \in Pointer :
      \E e \in {[clientX |-> x, clientY |-> y, target |-> "other"]} :
      \E moved \in {[i \in 1..Len(children) |->
                        DragAll(controllers[i], 1, children[i].transform, e)]} :
        /\ \A i \in 1..Len(children) : InOffsetBound(moved[i].transform)
        /\ controllers' = [i \in 1..Len(children) |-> moved[i].controllers]
        /\ children' = [i \in 1..Len(children) |->
                          [children[i] EXCEPT !.transform = moved[i].transform]]
        /\ lastEvent' = [kind |-> "mousemove", child |-> 0, target |-> "", x |-> x, y |-> y]
  /\ redraws' = <<>>
  /\ UNCHANGED <<props, corner_stack, movable_activated, first_draw, r,
                 canvas, boxListeners, placements, pass, gesture, probe>>

\* The page with one child of one cell on a grid of MaxGrid x MaxGrid cells.
InitDrag ==
  /\ Init
  /\ props.rows = MaxGrid /\ props.cols = MaxGrid
  /\ props.gap = 0 /\ props.aspectRatio = 1
  /\ props.width = MaxGrid * 2 /\ props.height = MaxGrid * 2
  /\ Len(children) = 1
  /\ children[1].offsetWidth = 0 /\ children[1].offsetHeight = 0

NextDrag == Mount \/ MouseDown \/ MouseMove \/ MouseUp

SpecDrag == InitDrag /\ [][NextDrag]_vars

(***************************************************************************)
(* division applied to bounded arguments.                                  *)
(***************************************************************************)
InitDivision ==
  /\ Setup
  /\ Len(children) = 0
  /\ props.rows = 1 /\ props.cols = 1 /\ props.gap = 0 /\ props.aspectRatio = 1
  /\ props.width = 2 /\ props.height = 2
  /\ probe \in [fn : {"division"}, a : 0..MaxLength, b : 1..MaxPitch, out : {<<>>}]

ApplyDivision ==
  /\ probe.fn = "division"
  /\ probe.out = <<>>
  /\ probe' = [probe EXCEPT !.out = <<division(probe.a, probe.b)>>]
  /\ UNCHANGED <<props, children, controllers, corner_stack, movable_activated,
                 first_draw, r, canvas, boxListeners, redraws, placements, pass,
                 lastEvent, gesture>>

NextDivision == ApplyDivision

SpecDivision == InitDivision /\ [][NextDivision]_vars

(***************************************************************************)
(* Hit testing.  A cell is <<i, j>>: i counts along the horizontal axis    *)
(* (i < r_row_la_num), j along the vertical axis (j < r_col_la_num).  g is *)
(* the r_* geometry the listeners read when an event arrives.              *)
(***************************************************************************)
\* rectX, rectY of cell c
CellOrigin(g, c) ==
  <<c[1] * (g.r_width + g.r_gap) + g.r_gap, c[2] * (g.r_height + g.r_gap) + g.r_gap>>

\* the cells in the order of `for i < r_row_la_num { for j < r_col_la_num`
AllCells(g) ==
  [n \in 1..(g.r_row_la_num * g.r_col_la_num) |->
     <<(n - 1) \div g.r_col_la_num, (n - 1) % g.r_col_la_num>>]

pointerHitWithGutter(g, x, y, c) ==
  LET rectX == CellOrigin(g, c)[1]
      rectY == CellOrigin(g, c)[2]
  IN  /\ x >= rectX - g.r_gap /\ x <= rectX + g.r_width + g.r_gap
      /\ y >= rectY - g.r_gap /\ y <= rectY + g.r_height + g.r_gap

pointerHitExclusive(g, x, y, c) ==
  LET o == CellOrigin(g, c)
  IN  x >= o[1] /\ x < o[1] + g.r_width /\ y >= o[2] /\ y < o[2] + g.r_height
\* x >= rectX && x <= rectX + r_width && y >= rectY && y <= rectY + r_height
pointerHit(g, x, y, c) ==
  LET rectX == CellOrigin(g, c)[1]
      rectY == CellOrigin(g, c)[2]
  IN  x >= rectX /\ x <= rectX + g.r_width /\ y >= rectY /\ y <= rectY + g.r_height

\* x2 >= rectX && x1 < rectX + r_width && y2 >= rectY && y1 < rectY + r_height
elementHit(g, x1, y1, x2, y2, c) ==
  LET rectX == CellOrigin(g, c)[1]
      rectY == CellOrigin(g, c)[2]
  IN  x2 >= rectX /\ x1 < rectX + g.r_width /\ y2 >= rectY /\ y1 < rectY + g.r_height

pointerListenerClaiming(g, stack, x, y) ==
  LET Hit(c) == pointerHit(g, x, y, c)
      hits == SelectSeq(AllCells(g), Hit)
  IN  [stack |-> stack \cup {Key(c[2], c[1]) : c \in Range(hits)},
       hovered |-> Range(hits),
       redraws |-> [k \in 1..Len(hits) |->
                      [width |-> g.r_width, height |-> g.r_height, row |-> 1, col |-> 1,
                       left |-> Num(CellOrigin(g, hits[k])[1]),
                       top |-> Num(CellOrigin(g, hits[k])[2])]]]
\* The canvas's mousemove listener of pointer mode, the pointer at
\* (offsetX, offsetY) = (x, y): the cells painted in the hover colour and
\* the redraw events emitted, with the occupancy set it leaves.
pointerListener(g, stack, x, y) ==
  LET Hit(c) == pointerHit(g, x, y, c)
      hits == SelectSeq(AllCells(g), Hit)
  IN  [stack |-> stack,
       hovered |-> Range(hits),
       redraws |-> [k \in 1..Len(hits) |->
                      [width |-> g.r_width, height |-> g.r_height, row |-> 1, col |-> 1,
                       left |-> Num(CellOrigin(g, hits[k])[1]),
                       top |-> Num(CellOrigin(g, hits[k])[2])]]]

listenerAnyTarget(g, stack, was, tat, left, top, width, height) ==
  LET x1 == left
      y1 == top
      x2 == left + width
      y2 == top + height
      rz == division(width, g.r_width + g.r_gap)
      cz == division(height, g.r_height + g.r_gap)
      w == rz * g.r_width + g.r_gap * (rz - 1)
      h == cz * g.r_height + g.r_gap * (cz - 1)
      rectX == (left \div (g.r_width + g.r_gap)) * (g.r_width + g.r_gap) + g.r_gap
      rectY == (top \div (g.r_height + g.r_gap)) * (g.r_height + g.r_gap) + g.r_gap
      Hit(c) == elementHit(g, x1, y1, x2, y2, c)
  IN  [stack |-> stack,
       hovered |-> Range(SelectSeq(AllCells(g), Hit)),
       redraws |-> <<[width |-> w, height |-> h, row |-> rz, col |-> cz,
                      left |-> Num(rectX), top |-> Num(rectY)]>>]

\* The box's mousemove listener of element-tracking mode.  tat is the
\* tracked node (props.watchDom ?? e.target): the "canvas" itself or an
\* "element" whose bounding rectangle, relative to the canvas, has the
\* given left, top, width and height.  was: the cells painted before.
listener(g, stack, was, tat, left, top, width, height) ==
  IF tat = "canvas"
  THEN [stack |-> stack, hovered |-> was, redraws |-> <<>>]
  ELSE LET x1 == left
           y1 == top
           x2 == left + width
           y2 == top + height
           rz == division(width, g.r_width + g.r_gap)
           cz == division(height, g.r_height + g.r_gap)
           w == rz * g.r_width + g.r_gap * (rz - 1)
           h == cz * g.r_height + g.r_gap * (cz - 1)
           rectX == (left \div (g.r_width + g.r_gap)) * (g.r_width + g.r_gap) + g.r_gap
           rectY == (top \div (g.r_height + g.r_gap)) * (g.r_height + g.r_gap) + g.r_gap
           Hit(c) == elementHit(g, x1, y1, x2, y2, c)
       IN  [stack |-> stack,
            hovered |-> Range(SelectSeq(AllCells(g), Hit)),
            redraws |-> <<[width |-> w, height |-> h, row |-> rz, col |-> cz,
                           left |-> Num(rectX), top |-> Num(rectY)]>>]

\* A mousemove over the canvas in pointer mode.
CanvasMouseMove ==
  /\ canvas.exists /\ canvas.mousemove > 0
  /\ \E x \in 0..canvas.width, y \in 0..canvas.height :
     \E out \in {pointerListener(r, corner_stack, x, y)} :
        /\ corner_stack' = out.stack
        /\ canvas' = [canvas EXCEPT !.hovered = out.hovered]
        /\ redraws' = out.redraws
        /\ lastEvent' = [kind |-> "canvasmove", child |-> 0, target |-> "canvas",
                         x |-> x, y |-> y]
  /\ UNCHANGED <<props, children, controllers, movable_activated, first_draw, r,
                 boxListeners, placements, pass, gesture, probe>>

TrackSizes == {0, 2}

\* A mousemove inside the box in element-tracking mode.
BoxMouseMove ==
  /\ canvas.exists /\ boxListeners > 0
  /\ \E tat \in {"canvas", "element"}, left \in 0..MaxTrack, top \in 0..MaxTrack,
        width \in TrackSizes, height \in TrackSizes :
     \E out \in {listener(r, corner_stack, canvas.hovered, tat, left, top, width, height)} :
        /\ tat = "canvas" => (left = 0 /\ top = 0 /\ width = 0 /\ height = 0)
        /\ corner_stack' = out.stack
        /\ canvas' = [canvas EXCEPT !.hovered = out.hovered]
        /\ redraws' = out.redraws
        /\ lastEvent' = [kind |-> "boxmove", child |-> 0, target |-> tat,
                         x |-> left, y |-> top, w |-> width, h |-> height]
  /\ UNCHANGED <<props, children, controllers, movable_activated, first_draw, r,
                 boxListeners, placements, pass, gesture, probe>>

\* One 0x0 child on square cells, in pointer mode or in element-tracking mode.
InitHover ==
  /\ SetupOf({[p EXCEPT !.pointer = b] : p \in PropsInit, b \in BOOLEAN}, ChildInit)
  /\ props.aspectRatio = 1
  /\ Len(children) = 1
  /\ children[1].offsetWidth = 0 /\ children[1].offsetHeight = 0
  /\ probe = NoProbe

NextHover == Mount \/ CanvasMouseMove \/ BoxMouseMove

SpecHover == InitHover /\ [][NextHover]_vars

(***************************************************************************)
(* The occupancy keys of two cells of the default grid.                    *)
(***************************************************************************)
\* the default props.rows and props.cols
DefaultGrid == 12

InitKeys ==
  /\ Setup
  /\ Len(children) = 0
  /\ props.rows = 1 /\ props.cols = 1 /\ props.gap = 0 /\ props.aspectRatio = 1
  /\ props.width = 2 /\ props.height = 2
  /\ probe \in [fn : {"key"},
                 a : (0..(DefaultGrid - 1)) \X (0..(DefaultGrid - 1)),
                 b : (0..(DefaultGrid - 1)) \X (0..(DefaultGrid - 1)),
                 out : {<<>>}]

\* out: the key searchMyPlace and getSubMatrix build for cell a and for cell b
ApplyKeys ==
  /\ probe.fn = "key"
  /\ probe.out = <<>>
  /\ probe' = [probe EXCEPT !.out = <<Key(probe.a[1], probe.a[2]),
                                      getSubMatrix(probe.b[2], probe.b[1], 1, 1)[1]>>]
  /\ UNCHANGED <<props, children, controllers, corner_stack, movable_activated,
                 first_draw, r, canvas, boxListeners, redraws, placements, pass,
                 lastEvent, gesture>>

NextKeys == ApplyKeys

SpecKeys == InitKeys /\ [][NextKeys]_vars

(***************************************************************************)
(* The offset codec applied to the strings translate3d(Xpx, Ypx, 0px):     *)
(* parseTranslate3dString decodes, setTranslate encodes what was decoded.  *)
(***************************************************************************)
WellFormed ==
  [fn : {"translate3d"}, x : {Num(n) : n \in 0..MaxCoord},
   y : {Num(n) : n \in 0..MaxCoord}, z : {"0px"}]

InitCodec ==
  /\ Setup
  /\ Len(children) = 0
  /\ props.rows = 1 /\ props.cols = 1 /\ props.gap = 0 /\ props.aspectRatio = 1
  /\ props.width = 2 /\ props.height = 2
  /\ probe \in [fn : {"codec"}, a : WellFormed, b : {0}, out : {<<>>}]

\* out: the decoded numbers, the string setTranslate writes for them, and
\* the value style.transform holds after the write
ApplyCodec ==
  /\ probe.fn = "codec"
  /\ probe.out = <<>>
  /\ \E n3d \in {parseTranslate3dString(probe.a)} :
     \E written \in {IF Len(n3d) > 0 THEN setTranslate(Num(n3d[1]), Num(n3d[2]))
                                      ELSE EmptyString} :
        probe' = [probe EXCEPT !.out = <<[n3d |-> n3d, written |-> written,
                                          stored |-> StyleTransform(probe.a, written)]>>]
  /\ UNCHANGED <<props, children, controllers, corner_stack, movable_activated,
                 first_draw, r, canvas, boxListeners, redraws, placements, pass,
                 lastEvent, gesture>>

NextCodec == ApplyCodec

SpecCodec == InitCodec /\ [][NextCodec]_vars

(***************************************************************************)
(* Render passes over children that come with an inline transform of their *)
(* own: none, another transform function, a translate3d with a negative    *)
(* component, and translate3d offsets the pattern matches.                 *)
(***************************************************************************)
T3d(x, y) == [fn |-> "translate3d", x |-> Num(x), y |-> Num(y), z |-> "0px"]

\* "", rotate(45deg), translate3d(-2px, 0px, 0px), translate3d(0px, 0px, 0px),
\* translate3d(4px, 2px, 0px), translate3d(0px, 4px, 0px)
Transforms ==
  {EmptyString, [fn |-> "rotate", x |-> NaN, y |-> NaN, z |-> ""],
   T3d(-2, 0), T3d(0, 0), T3d(4, 2), T3d(0, 4)}

ChildOffsets ==
  [offsetWidth : {0}, offsetHeight : {0}, transform : Transforms, position : {"static"}]

InitOffsets == SetupOf(PropsInit, ChildOffsets) /\ probe = NoProbe

SpecOffsets == InitOffsets /\ [][Next]_vars

(***************************************************************************)
(* Render passes under a gap that makes the pitch (cell size + gap)        *)
(* negative on both axes.                                                  *)
(***************************************************************************)
\* props.gap below minus the largest cell height (3 * 2)
NegativeGaps == {-7, -8}

InitPitch ==
  /\ SetupOf({[p EXCEPT !.gap = g] : p \in PropsInit, g \in NegativeGaps}, ChildInit)
  /\ probe = NoProbe

\* The first pass only: under a negative pitch every further pass resizes
\* the children to a larger box, without bound.
NextPitch == Mount

SpecPitch == InitPitch /\ [][NextPitch]_vars

(***************************************************************************)
(* Vocabulary of the properties.                                           *)
(***************************************************************************)
\* the grid of the latest pass: rn rows of cn columns
GridRows == r.r_col_la_num
GridCols == r.r_row_la_num

\* the cells <<row, column>> of the block of h rows and w columns at fro
Block(fro, h, w) ==
  {<<i, j>> : i \in fro[1]..(fro[1] + h - 1), j \in fro[2]..(fro[2] + w - 1)}

KeysOf(cells) == {Key(c[1], c[2]) : c \in cells}

\* the state right after a render pass that ran autoOccupy
AfterPass == lastEvent.kind \in {"mount", "resize"} /\ pass.rendered

IsSearch(e) == e.kind = "search"
Searches == SelectSeq(placements, IsSearch)

\* the span <<height, width>> computed from child i's own box in the pass
OwnSpan(i) == <<redraws[i].col, redraws[i].row>>

\* the log entry of child i's placement in the pass
EntryOf(i) == CHOOSE e \in Range(placements) : e.child = i

RECURSIVE SumAreas(_)
SumAreas(i) == IF i = 0 THEN 0 ELSE OwnSpan(i)[1] * OwnSpan(i)[2] + SumAreas(i - 1)

\* a first pass in which no child has an offset and every child is searched
FirstPassWithoutOffsets ==
  /\ AfterPass
  /\ pass.start = {}
  /\ Len(placements) = Len(children)
  /\ \A k \in 1..Len(placements) : placements[k].kind = "search"

\* every child is one row high, no wider than the grid, and the grid has a
\* row for each child: whatever the order, a free block exists for each
RoomForAll ==
  /\ Len(children) <= GridRows
  /\ \A i \in 1..Len(children) : OwnSpan(i)[1] = 1 /\ OwnSpan(i)[2] <= GridCols

\* the top-left cells whose h x w block is inside the grid and free
FreeBlocks(stack, h, w, rn, cn) ==
  {c \in (0..(rn - 1)) \X (0..(cn - 1)) :
     /\ c[1] + h <= rn
     /\ c[2] + w <= cn
     /\ KeysOf(Block(c, h, w)) \cap stack = {}}

\* the string matches /translate3d\((\d+)px,\s*(\d+)px,\s*(\d+)px\)/
MatchesPattern(str) ==
  /\ str.fn = "translate3d"
  /\ IsNum(str.x) /\ str.x[1] >= 0
  /\ IsNum(str.y) /\ str.y[1] >= 0
  /\ str.z = "0px"

\* the log entries of child i in the latest pass
EntriesOf(i) == {k \in 1..Len(placements) : placements[k].child = i}

RowMajorBefore(a, b) == a[1] < b[1] \/ (a[1] = b[1] /\ a[2] <= b[2])

(***************************************************************************)
(* C1.  After a full placement pass over children none of which has a      *)
(* pre-existing offset, the footprints of every two children (the block of *)
(* the child's own span at the top-left cell it was assigned) are disjoint *)
(* and the occupancy set has as many cells as the sum of the children's    *)
(* span areas.  Stated for the passes in which every child has room.       *)
(***************************************************************************)
C1_DisjointFootprintsAndFullCount ==
  (FirstPassWithoutOffsets /\ RoomForAll) =>
     /\ \A i \in 1..Len(children) : EntryOf(i).placed
     /\ \A i, j \in 1..Len(children) :
           i # j => Block(EntryOf(i).fro, OwnSpan(i)[1], OwnSpan(i)[2])
                      \cap Block(EntryOf(j).fro, OwnSpan(j)[1], OwnSpan(j)[2]) = {}
     /\ Cardinality(corner_stack) = SumAreas(Len(children))

(***************************************************************************)
(* C2.  Whenever searchMyPlace assigns a top-left cell (row, col), the     *)
(* span-sized block starting there lies inside the grid:                   *)
(* row + span height <= rows and col + span width <= columns.              *)
(***************************************************************************)
C2_AssignedBlockInsideGrid ==
  AfterPass =>
    \A k \in 1..Len(placements) :
      LET e == placements[k]
      IN  (e.kind = "search" /\ e.placed) =>
             /\ e.fro[1] + e.min_cols <= GridRows
             /\ e.fro[2] + e.min_rows <= GridCols

(***************************************************************************)
(* C3.  searchMyPlace started at (0,0) returns the first top-left cell in  *)
(* row-major order whose span-sized block is entirely inside the grid and  *)
(* entirely free, and returns no placement exactly when there is none.     *)
(***************************************************************************)
C3_FirstRowMajorFreeBlock ==
  AfterPass =>
    \A k \in 1..Len(placements) :
      LET e == placements[k]
          free == FreeBlocks(e.before, e.min_cols, e.min_rows, GridRows, GridCols)
      IN  e.kind = "search" =>
             /\ e.placed <=> free # {}
             /\ e.placed => /\ e.fro \in free
                            /\ \A c \in free : RowMajorBefore(e.fro, c)

(***************************************************************************)
(* C4.  At the start of every render pass the occupancy set is empty, so   *)
(* after any sequence of passes it holds only cells claimed in the latest. *)
(***************************************************************************)
C4_OccupancyResetEachPass ==
  (pass.mounted /\ pass.rendered) =>
     /\ pass.start = {}
     /\ corner_stack \subseteq UNION {placements[k].cells : k \in 1..Len(placements)}

(***************************************************************************)
(* C8.  Every placement, an honored offset or a successful search, adds to *)
(* the occupancy set exactly the keys of the span-width x span-height      *)
(* block at its top-left cell; a search placement grows the set by exactly *)
(* span-width * span-height cells.                                         *)
(***************************************************************************)
C8_PlacementClaimsExactlyItsBlock ==
  AfterPass =>
    \A k \in 1..Len(placements) :
      LET e == placements[k]
      IN  e.placed =>
             /\ e.cells = KeysOf(Block(e.fro, e.min_cols, e.min_rows))
             /\ e.kind = "search" =>
                   Cardinality(e.before \cup e.cells) - Cardinality(e.before)
                     = e.min_rows * e.min_cols

(***************************************************************************)
(* C9.  As claimed: the children queued for the search are handed to       *)
(* searchMyPlace in the reverse of the order they were collected in, the   *)
(* last collected child first.                                             *)
(***************************************************************************)
C9_SearchedInReverseOrder ==
  AfterPass =>
    \A a, b \in 1..Len(Searches) : a < b => Searches[a].child > Searches[b].child

(***************************************************************************)
(* C9, amended.  The children queued for the search are handed to          *)
(* searchMyPlace in the order they were collected in, the first collected  *)
(* child first, and every queued child is searched once.                   *)
(***************************************************************************)
C9_SearchedInCollectionOrder ==
  AfterPass =>
    /\ \A a, b \in 1..Len(Searches) : a < b => Searches[a].child < Searches[b].child
    /\ {Searches[a].child : a \in 1..Len(Searches)}
         = {i \in 1..Len(children) : \A k \in 1..Len(placements) :
                placements[k].child = i => placements[k].kind = "search"}

\* a pass that searched for two children
C9_TwoChildrenSearched ==
  AfterPass /\ Len(Searches) >= 2 /\ OwnSpan(1) # OwnSpan(2)

(***************************************************************************)
(* C5.  Every pointer-move while Dragging sets the element's offset to the *)
(* offset committed when the gesture's pointer-down occurred plus          *)
(* (current pointer - pointer at pointer-down), the offset one gesture     *)
(* leaves being the baseline of the next.  Stated for the gestures that    *)
(* begin with the controller Idle.                                         *)
(***************************************************************************)
C5_MoveSetsBaselinePlusDelta ==
  \A i \in 1..Len(children) :
    (lastEvent.kind = "mousemove" /\ Dragging(i) /\ gesture[i].fromIdle) =>
       OffsetOf(children[i].transform)
         = <<OffsetOf(gesture[i].base)[1] + lastEvent.x - gesture[i].downX,
             OffsetOf(gesture[i].base)[2] + lastEvent.y - gesture[i].downY>>

(***************************************************************************)
(* C6.  A pointer-up anywhere (over the dragged element, over another      *)
(* element, over empty space) moves the drag controller to Idle.           *)
(***************************************************************************)
C6_PointerUpAnywhereEndsDrag ==
  lastEvent.kind = "mouseup" => \A i \in 1..Len(children) : ~Dragging(i)

(***************************************************************************)
(* C7.  The drag controller enters Dragging only on a pointer-down whose   *)
(* target is exactly the owned element: a pointer-down on a descendant or  *)
(* on another element leaves it Idle, and the pointer-moves of an Idle     *)
(* controller leave the element's offset unchanged.                        *)
(***************************************************************************)
C7_DraggingOnlyFromDownOnElement ==
  [][\A i \in 1..Len(children) :
       LET downOnElement == /\ lastEvent'.kind = "mousedown"
                            /\ lastEvent'.child = i
                            /\ lastEvent'.target = "self"
       IN  /\ (~Dragging(i) /\ Dragging(i)') => downOnElement
           /\ (~Dragging(i) /\ lastEvent'.kind = "mousedown" /\ ~downOnElement)
                 => ~Dragging(i)'
           /\ (~Dragging(i) /\ lastEvent'.kind = "mousemove")
                 => children'[i].transform = children[i].transform]_vars

\* a pointer-move that follows a pointer-down on a descendant of an
\* element whose controller is installed and Idle
C7_MoveAfterDownOnDescendant ==
  /\ lastEvent.kind = "mousemove"
  /\ \E i \in 1..Len(children) :
        /\ Len(controllers[i]) > 0
        /\ ~Dragging(i)
        /\ gesture[i].target = "descendant"

(***************************************************************************)
(* C10.  For all integers length >= 0 and pitch > 0, division(length,      *)
(* pitch) is max(1, ceil(length / pitch)): for length > 0 the result n     *)
(* satisfies (n-1)*pitch < length <= n*pitch, for length = 0 it is 1, so a *)
(* span is at least one cell.                                              *)
(***************************************************************************)
C10_DivisionIsCeilingAtLeastOne ==
  (probe.fn = "division" /\ probe.out # <<>>) =>
     LET n == probe.out[1]
     IN  /\ n >= 1
         /\ probe.a > 0 => ((n - 1) * probe.b < probe.a /\ probe.a <= n * probe.b)
         /\ probe.a = 0 => n = 1

\* division has rounded a quotient up
C10_RoundedUp ==
  /\ probe.fn = "division" /\ probe.out # <<>>
  /\ probe.a > probe.b /\ probe.a % probe.b # 0
  /\ probe.out[1] = (probe.a \div probe.b) + 1

(***************************************************************************)
(* C20.  Every cell in the occupancy set after any render pass satisfies   *)
(* 0 <= row < rows and 0 <= col < cols, the cells claimed for children     *)
(* with a pre-existing non-negative offset included (for any gap >= 0).    *)
(***************************************************************************)
C20_OccupiedCellsInsideGrid ==
  AfterPass =>
    corner_stack \subseteq KeysOf((0..(GridRows - 1)) \X (0..(GridCols - 1)))

(***************************************************************************)
(* C11.  A render pass whose pitch (cell size + gap) is non-positive fails *)
(* with InvalidArgument: division yields an error outcome rather than a    *)
(* cell count, so the pass reports no span for any child, and no placement *)
(* is performed in it (no offset is written, no cell is claimed).          *)
(***************************************************************************)
C11_NonPositivePitchFailsThePass ==
  (AfterPass /\ (r.r_width + r.r_gap <= 0 \/ r.r_height + r.r_gap <= 0)) =>
     /\ redraws = <<>>
     /\ \A k \in 1..Len(placements) : ~placements[k].placed
     /\ \A i \in 1..Len(children) : children[i].transform = EmptyString
     /\ corner_stack = pass.start

(***************************************************************************)
(* C12.  For every string s of the form translate3d(Xpx, Ypx, 0px) with    *)
(* non-negative integers X and Y, encoding the (x, y) decoded by           *)
(* parseTranslate3dString reproduces s: encode(decode(s)) = s.             *)
(***************************************************************************)
C12_EncodeOfDecodeReproduces ==
  (probe.fn = "codec" /\ probe.out # <<>>) =>
     /\ probe.out[1].n3d = <<probe.a.x[1], probe.a.y[1], 0>>
     /\ probe.out[1].written = probe.a

(***************************************************************************)
(* C13.  Every offset a placement or a drag has committed to an element is *)
(* decoded by parseTranslate3dString to the same numeric payload (x, y, 0),*)
(* so it is recovered on the next render pass and the next drag start.     *)
(***************************************************************************)
C13_CommittedOffsetDecodes ==
  \A i \in 1..Len(children) :
    children[i].transform.fn = "translate3d" =>
       parseTranslate3dString(children[i].transform)
         = <<children[i].transform.x[1], children[i].transform.y[1], 0>>

(***************************************************************************)
(* C14.  parseTranslate3dString returns the empty "no offset" result,      *)
(* never an error, for every string that does not match the translate3d    *)
(* pattern, and a child whose offset decodes to "no offset" is queued for  *)
(* the placement search as a first placement, started at cell (0,0)        *)
(* (props.autoPlace on, its default).                                      *)
(***************************************************************************)
C14_MalformedOffsetIsQueued ==
  AfterPass =>
    \A i \in 1..Len(children) :
      LET tra == pass.transforms[i]
      IN  /\ ~MatchesPattern(tra) => parseTranslate3dString(tra) = <<>>
          /\ parseTranslate3dString(tra) = <<>> =>
                /\ Cardinality(EntriesOf(i)) = 1
                /\ \A k \in EntriesOf(i) :
                      /\ placements[k].kind = "search"
                      /\ placements[k].before = {} => placements[k].fro = <<0, 0>>

\* a pass over a child whose translate3d has a negative component, and
\* over a child whose transform is another function
C14_NegativeAndForeignQueued ==
  /\ AfterPass
  /\ \E i, j \in 1..Len(children) :
        /\ pass.transforms[i] = T3d(-2, 0)
        /\ pass.transforms[j].fn = "rotate"
        /\ \A k \in EntriesOf(i) \cup EntriesOf(j) : placements[k].kind = "search"

\* the cells <<i, j>> of the grid the listeners loop over
GridCells == (0..(r.r_row_la_num - 1)) \X (0..(r.r_col_la_num - 1))

(***************************************************************************)
(* C15.  In pointer mode the cells reported hovered by one pointer-move    *)
(* are exactly the cells with cellX <= pointerX <= cellX + cellWidth and   *)
(* cellY <= pointerY <= cellY + cellHeight, each producing one redraw with *)
(* span (1,1) and the cell's pixel origin; on a 2 x 2 grid with gap 0 a    *)
(* pointer at the middle of cell (0,0) hovers that cell only.              *)
(***************************************************************************)
C15_PointerHoversCellsContainingIt ==
  lastEvent.kind = "canvasmove" =>
    LET px == lastEvent.x
        py == lastEvent.y
        cellX(c) == c[1] * (r.r_width + r.r_gap) + r.r_gap
        cellY(c) == c[2] * (r.r_height + r.r_gap) + r.r_gap
        inside == {c \in GridCells :
                     /\ cellX(c) <= px /\ px <= cellX(c) + r.r_width
                     /\ cellY(c) <= py /\ py <= cellY(c) + r.r_height}
    IN  /\ canvas.hovered = inside
        /\ Len(redraws) = Cardinality(inside)
        /\ \A k \in 1..Len(redraws) :
              /\ redraws[k].row = 1 /\ redraws[k].col = 1
              /\ redraws[k].width = r.r_width /\ redraws[k].height = r.r_height
        /\ {<<redraws[k].left, redraws[k].top>> : k \in 1..Len(redraws)}
             = {<<Num(cellX(c)), Num(cellY(c))>> : c \in inside}
        /\ (/\ r.r_row_la_num = 2 /\ r.r_col_la_num = 2 /\ r.r_gap = 0
            /\ r.r_width = 2 /\ r.r_height = 2 /\ px = 1 /\ py = 1)
              => canvas.hovered = {<<0, 0>>}

\* a pointer on the edge two cells share (gap 0): both are hovered
C15_PointerOnSharedEdge ==
  /\ lastEvent.kind = "canvasmove"
  /\ r.r_gap = 0
  /\ lastEvent.x = r.r_width
  /\ {<<0, 0>>, <<1, 0>>} \subseteq canvas.hovered
  /\ Len(redraws) >= 2

(***************************************************************************)
(* C16.  In element-tracking mode a cell is highlighted iff                *)
(* cellRight >= trackedLeft and cellLeft < trackedRight, and the same      *)
(* vertically; a tracked rectangle whose right (bottom) edge lies exactly  *)
(* on a cell's left (top) edge does not highlight that cell.               *)
(***************************************************************************)
C16_TrackedOverlapIsHalfOpen ==
  (lastEvent.kind = "boxmove" /\ lastEvent.target = "element") =>
    LET trackedLeft == lastEvent.x
        trackedTop == lastEvent.y
        trackedRight == lastEvent.x + lastEvent.w
        trackedBottom == lastEvent.y + lastEvent.h
        cellLeft(c) == c[1] * (r.r_width + r.r_gap) + r.r_gap
        cellTop(c) == c[2] * (r.r_height + r.r_gap) + r.r_gap
    IN  \A c \in GridCells :
          /\ c \in canvas.hovered <=>
                /\ cellLeft(c) + r.r_width >= trackedLeft /\ cellLeft(c) < trackedRight
                /\ cellTop(c) + r.r_height >= trackedTop /\ cellTop(c) < trackedBottom
          /\ (trackedRight = cellLeft(c) \/ trackedBottom = cellTop(c))
                => c \notin canvas.hovered

(***************************************************************************)
(* C17.  Neither hit-tester mode changes the occupancy set: a pointer-move *)
(* handled in pointer mode or in element-tracking mode leaves corner_stack *)
(* and every element's offset unchanged and only emits redraw events.      *)
(***************************************************************************)
C17_HoverLeavesOccupancyAndOffsets ==
  [][lastEvent'.kind \in {"canvasmove", "boxmove"} =>
       /\ corner_stack' = corner_stack
       /\ children' = children
       /\ placements' = placements]_vars

\* a pointer-move of either mode that highlighted a cell while the
\* occupancy set held a claimed cell
C17_HoverOverOccupiedGrid ==
  /\ lastEvent.kind \in {"canvasmove", "boxmove"}
  /\ canvas.hovered # {}
  /\ redraws # <<>>
  /\ corner_stack # {}
  /\ children[1].transform.fn = "translate3d"

(***************************************************************************)
(* C18.  When searchMyPlace exhausts the grid without completing a block   *)
(* for an element, the outcome is surfaced as an explicit no-space result: *)
(* the call returns a value that says so instead of falling off the loop   *)
(* with nothing returned.                                                  *)
(***************************************************************************)
C18_NoSpaceIsReported ==
  AfterPass =>
    \A k \in 1..Len(placements) :
      (placements[k].kind = "search" /\ ~placements[k].placed) =>
         placements[k].returned # "undefined"

(***************************************************************************)
(* C19.  Two distinct cells (row, col) of the grid never share an          *)
(* occupancy key, for every grid up to the default 12 x 12 (indices        *)
(* 0..11), so a cell is reported occupied only if that cell was claimed.   *)
(***************************************************************************)
C19_DistinctCellsDistinctKeys ==
  (probe.fn = "key" /\ probe.out # <<>>) =>
     (probe.a # probe.b => probe.out[1] # probe.out[2])

(***************************************************************************)
(* Re-renders in both hit-test modes: the props of PropsInit with          *)
(* props.pointer true or false, children of size 0 x 0.                    *)
(***************************************************************************)
InitListeners ==
  /\ SetupOf({[p EXCEPT !.pointer = b] : p \in PropsInit, b \in BOOLEAN}, ChildInit)
  /\ \A i \in 1..Len(children) : children[i].offsetWidth = 0 /\ children[i].offsetHeight = 0
  /\ probe = NoProbe

SpecListeners == InitListeners /\ [][Next]_vars

\* C21: over any sequence of re-renders the canvas carries at most one
\* hit-test mousemove listener, the box at most one element-tracking
\* mousemove listener, and every child at most one set of drag handlers, so a
\* pointer-move runs no handler twice.
C21_ListenersInstalledAtMostOnce ==
  /\ canvas.mousemove <= 1
  /\ boxListeners <= 1
  /\ \A i \in 1..Len(controllers) : Len(controllers[i]) <= 1

\* A re-render in element-tracking mode after which the box listener and every
\* child's drag handlers are installed.
C21_RerenderedWithListeners ==
  /\ lastEvent.kind = "resize"
  /\ pass.rendered
  /\ ~props.pointer
  /\ boxListeners = 1
  /\ Len(children) >= 1
  /\ \A i \in 1..Len(controllers) : Len(controllers[i]) = 1

(***************************************************************************)
(* C22.  A placement pass emits exactly one redraw per child, carrying the *)
(* child's own span, its cell-aligned pixel size (span * cell size + gap * *)
(* (span - 1), the size the pass gives the child) and the pixel offset the *)
(* child's placement in this pass committed to it.                         *)
(***************************************************************************)
C22_RedrawCarriesSpanSizeAndOffset ==
  AfterPass =>
    /\ Len(redraws) = Len(children)
    /\ \A i \in 1..Len(children) :
          LET e == redraws[i]
          IN  /\ e.dom = i
              /\ e.width = e.row * r.r_width + r.r_gap * (e.row - 1)
              /\ e.height = e.col * r.r_height + r.r_gap * (e.col - 1)
              /\ e.width = children[i].offsetWidth
              /\ e.height = children[i].offsetHeight
              /\ EntryOf(i).placed =>
                    /\ e.left = children[i].transform.x
                    /\ e.top = children[i].transform.y

(***************************************************************************)
(* C23.  Each child queued for the placement search is searched with its   *)
(* own span: the (height span, width span) handed to searchMyPlace for a   *)
(* child is the pair division computed from that child's box, for any      *)
(* number of queued children with differing spans.                         *)
(***************************************************************************)
C23_SearchedWithOwnSpan ==
  AfterPass =>
    \A k \in 1..Len(placements) :
      LET e == placements[k]
      IN  e.kind = "search" => <<e.min_cols, e.min_rows>> = OwnSpan(e.child)

\* the offset searchMyPlace commits for the top-left cell <<row, column>>
CellAligned(c) ==
  T3d(r.r_gap + c[2] * (r.r_width + r.r_gap), r.r_gap + c[1] * (r.r_height + r.r_gap))

(***************************************************************************)
(* C24.  A render pass over an element whose offset is already the         *)
(* cell-aligned offset of a cell of the pass's grid, (gap + col *          *)
(* (cellWidth + gap), gap + row * (cellHeight + gap)), leaves that offset  *)
(* unchanged: re-snapping it is a fixed point for any cellWidth,           *)
(* cellHeight (cellHeight # cellWidth included) and gap.                   *)
(***************************************************************************)
C24_ResnapIsFixedPoint ==
  AfterPass =>
    \A i \in 1..Len(children) :
      (\E c \in (0..(GridRows - 1)) \X (0..(GridCols - 1)) :
           pass.transforms[i] = CellAligned(c))
        => children[i].transform = pass.transforms[i]

(***************************************************************************)
(* searchMyPlace on its own: a grid of rn rows and cn columns, an          *)
(* occupancy set over the first two rows of the largest grid (cells beyond *)
(* the grid's edge included), and a span of at least (1,1).                *)
(***************************************************************************)
InitSearch ==
  /\ Setup
  /\ Len(children) = 0
  /\ props.rows = 1 /\ props.cols = 1 /\ props.gap = 0 /\ props.aspectRatio = 1
  /\ props.width = 2 /\ props.height = 2
  /\ probe \in [fn : {"searchMyPlace"},
                 a : [stack : SUBSET KeysOf((0..1) \X (0..(MaxGrid - 1))),
                      rn : 1..MaxGrid, cn : 1..MaxGrid],
                 b : (1..MaxGrid) \X (1..MaxGrid),
                 out : {<<>>}]

\* out: the outcome of searchMyPlace(min_cols, min_rows, child) with
\* <<min_cols, min_rows>> = b on the grid and occupancy set of a
ApplySearch ==
  /\ probe.fn = "searchMyPlace"
  /\ probe.out = <<>>
  /\ probe' = [probe EXCEPT !.out = <<searchMyPlace(probe.a.stack, probe.b[1], probe.b[2],
                                                    <<0, 0>>, probe.a.rn, probe.a.cn)>>]
  /\ UNCHANGED <<props, children, controllers, corner_stack, movable_activated,
                 first_draw, r, canvas, boxListeners, redraws, placements, pass,
                 lastEvent, gesture>>

NextSearch == ApplySearch

SpecSearch == InitSearch /\ [][NextSearch]_vars

(***************************************************************************)
(* C25.  For every grid, occupancy set and span of at least (1,1),         *)
(* searchMyPlace terminates with an outcome after at most rows * cols      *)
(* restarts, and each restart starts at a strictly greater column and at a *)
(* row that is not smaller than the invocation before it.                  *)
(***************************************************************************)
C25_SearchTerminatesWithinBound ==
  (probe.fn = "searchMyPlace" /\ probe.out # <<>>) =>
     LET res == probe.out[1]
     IN  /\ res.placed \in BOOLEAN
         /\ res.restarts <= probe.a.rn * probe.a.cn
         /\ Len(res.starts) = res.restarts + 1
         /\ \A n \in 1..res.restarts :
               /\ res.starts[n + 1][2] > res.starts[n][2]
               /\ res.starts[n + 1][1] >= res.starts[n][1]

\* a search that restarted twice, one restart starting in a row further down
C25_RestartedTwice ==
  /\ probe.fn = "searchMyPlace" /\ probe.out # <<>>
  /\ probe.out[1].restarts >= 2
  /\ \E n \in 1..probe.out[1].restarts :
        probe.out[1].starts[n + 1][1] > probe.out[1].starts[n][1]

(***************************************************************************)
(* Render passes over children of which some have a pre-existing offset    *)
(* and some have none, in a grid of one row without gap: the inline        *)
(* transforms "", translate3d(0px, 0px, 0px), translate3d(2px, 0px, 0px).  *)
(***************************************************************************)
ChildMixed ==
  [offsetWidth : Sizes, offsetHeight : {0},
   transform : {EmptyString, T3d(0, 0), T3d(2, 0)}, position : {"static"}]

InitMixed ==
  /\ SetupOf(PropsInit, ChildMixed)
  /\ props.cols = 1 /\ props.gap = 0 /\ props.aspectRatio = 1
  /\ probe = NoProbe

SpecMixed == InitMixed /\ [][Next]_vars

\* the cells the pass claimed for the children with a pre-existing offset
OffsetClaimed ==
  UNION {placements[k].cells : k \in {n \in 1..Len(placements) : placements[n].kind = "offset"}}

(***************************************************************************)
(* C26.  Within a render pass every child with a pre-existing offset has   *)
(* its footprint claimed before the first placement search runs, and no    *)
(* child the search places is assigned (as a cell of the span-sized block  *)
(* at the top-left cell it is given) a cell that a pre-offset child        *)
(* claimed in that pass.                                                   *)
(***************************************************************************)
C26_SearchAvoidsPreOffsetCells ==
  AfterPass =>
    /\ \A a, b \in 1..Len(placements) :
          (placements[a].kind = "offset" /\ placements[b].kind = "search") => a < b
    /\ \A k \in 1..Len(placements) :
          LET e == placements[k]
          IN  (e.kind = "search" /\ e.placed) =>
                 KeysOf(Block(e.fro, e.min_cols, e.min_rows)) \cap OffsetClaimed = {}

(***************************************************************************)
(* C27.  When searchMyPlace finds no block for an element, the occupancy   *)
(* set and the element's offset are what they were before the search: the  *)
(* cells the failed scan collected are not claimed.                        *)
(***************************************************************************)
C27_FailedSearchChangesNothing ==
  AfterPass =>
    \A k \in 1..Len(placements) :
      LET e == placements[k]
      IN  (e.kind = "search" /\ ~e.placed) =>
             /\ e.after = e.before
             /\ e.cells = {}
             /\ e.tra = e.was
             /\ children[e.child].transform = pass.transforms[e.child]

\* a search that collected free cells and then ran out of rows
C27_FailedAfterCollecting ==
  /\ AfterPass
  /\ \E k \in 1..Len(placements) :
        /\ placements[k].kind = "search"
        /\ ~placements[k].placed
        /\ placements[k].scanned # {}
        /\ placements[k].scanned \cap corner_stack = {}

(***************************************************************************)
(* Drag gestures over two elements: the page of InitDrag with two          *)
(* children, every pointer-down at the origin and the pointer moving along *)
(* the line y = 0.                                                         *)
(***************************************************************************)
InitDragTwo ==
  /\ Init
  /\ props.rows = MaxGrid /\ props.cols = MaxGrid
  /\ props.gap = 0 /\ props.aspectRatio = 1
  /\ props.width = MaxGrid * 2 /\ props.height = MaxGrid * 2
  /\ Len(children) = 2
  /\ \A i \in 1..2 : children[i].offsetWidth = 0 /\ children[i].offsetHeight = 0

AtOrigin ==
  \A i \in 1..Len(controllers) : \A k \in 1..Len(controllers[i]) :
     controllers'[i][k] # controllers[i][k] =>
        \E e \in {[clientX |-> 0, clientY |-> 0, target |-> t] : t \in Targets} :
           controllers'[i][k] = dragStart(controllers[i][k], children[i].transform, e)

OnLine == lastEvent'.y = 0

NextDragTwo == Mount \/ (MouseDown /\ AtOrigin) \/ (MouseMove /\ OnLine) \/ MouseUp

SpecDragTwo == InitDragTwo /\ [][NextDragTwo]_vars

\* the elements of the gesture in progress: a pointer-down on the element
\* itself that no pointer-up has followed
Dragged == {i \in 1..Len(children) : gesture[i].open}

(***************************************************************************)
(* C28.  The pointer-down, pointer-move and pointer-up events the drag     *)
(* controllers handle change only the dragged element's offset: they leave *)
(* the occupancy set alone, run no placement search, and while an element  *)
(* is being dragged they change no other element.                          *)
(***************************************************************************)
C28_DragChangesOnlyDraggedElement ==
  [][lastEvent'.kind \in {"mousedown", "mousemove", "mouseup"} =>
       /\ corner_stack' = corner_stack
       /\ placements' = placements
       /\ \A i \in 1..Len(children) :
             /\ [children'[i] EXCEPT !.transform = children[i].transform] = children[i]
             /\ (Dragged # {} /\ i \notin Dragged) => children'[i] = children[i]]_vars

(***************************************************************************)
(* C29.  Within a render pass the occupancy set only grows: every claim,   *)
(* of an honored offset or of a search, leaves the set the union of what   *)
(* it was and the cells claimed (claiming a cell already in the set        *)
(* changes nothing), each claim starts from the set the claim before it    *)
(* left, and the set after the pass contains the set the pass started with.*)
(***************************************************************************)
C29_OccupancyOnlyGrows ==
  AfterPass =>
    /\ pass.start \subseteq corner_stack
    /\ \A k \in 1..Len(placements) :
          LET e == placements[k]
          IN  /\ e.after = e.before \cup e.cells
              /\ e.before = IF k = 1 THEN pass.start ELSE placements[k - 1].after
              /\ k = Len(placements) => e.after = corner_stack

\* a pass that claimed again a cell already in the set, and claimed a new one
C29_ReclaimedAndGrew ==
  /\ AfterPass
  /\ \E k \in 1..Len(placements) :
        /\ placements[k].cells # {}
        /\ placements[k].cells \subseteq placements[k].before
  /\ \E k \in 1..Len(placements) :
        /\ placements[k].before # {}
        /\ placements[k].cells \ placements[k].before # {}

\* max(1, ceil(length / pitch)) for a length >= 0 and a pitch > 0
CeilAtLeastOne(length, pitch) ==
  IF length = 0 THEN 1
  ELSE CHOOSE n \in 1..length : (n - 1) * pitch < length /\ length <= n * pitch

(***************************************************************************)
(* C30.  In element-tracking mode a pointer-move over the container whose  *)
(* tracked element is not the canvas emits exactly one redraw, with span   *)
(* (division(width, cellWidth + gap), division(height, cellHeight + gap))  *)
(* and offset (floor(left / (cellWidth + gap)) * (cellWidth + gap) + gap,  *)
(* floor(top / (cellHeight + gap)) * (cellHeight + gap) + gap); when the   *)
(* tracked element is the canvas itself nothing is emitted.                *)
(***************************************************************************)
C30_TrackedMoveEmitsOneRedraw ==
  lastEvent.kind = "boxmove" =>
     LET pitchX == r.r_width + r.r_gap
         pitchY == r.r_height + r.r_gap
     IN  IF lastEvent.target = "canvas"
         THEN redraws = <<>>
         ELSE /\ Len(redraws) = 1
              /\ redraws[1].row = CeilAtLeastOne(lastEvent.w, pitchX)
              /\ redraws[1].col = CeilAtLeastOne(lastEvent.h, pitchY)
              /\ redraws[1].left = Num((lastEvent.x \div pitchX) * pitchX + r.r_gap)
              /\ redraws[1].top = Num((lastEvent.y \div pitchY) * pitchY + r.r_gap)

\* a pointer-move tracking an element that lies in the second column of a
\* grid with a gap and is narrower than a cell pitch
C30_TrackedInSecondColumn ==
  /\ lastEvent.kind = "boxmove"
  /\ lastEvent.target = "element"
  /\ r.r_gap > 0
  /\ lastEvent.x >= r.r_width + r.r_gap
  /\ lastEvent.w > 0 /\ lastEvent.w < r.r_width + r.r_gap
  /\ Len(redraws) = 1

\* the pointer of the latest canvas mousemove lies on a line on which the
\* closed rectangles of two neighbouring cells meet (only when the gap is 0)
OnSharedEdge ==
  /\ r.r_gap = 0
  /\ \/ \E i \in 1..(r.r_row_la_num - 1) : lastEvent.x = i * r.r_width
     \/ \E j \in 1..(r.r_col_la_num - 1) : lastEvent.y = j * r.r_height

(***************************************************************************)
(* C31.  As claimed: one pointer-move in pointer mode reports zero or one  *)
(* hovered cell and emits at most one redraw, for every pointer position   *)
(* and every gap >= 0.                                                     *)
(***************************************************************************)
C31_AtMostOneHoveredCell ==
  lastEvent.kind = "canvasmove" =>
     /\ Cardinality(canvas.hovered) <= 1
     /\ Len(redraws) <= 1

(***************************************************************************)
(* C31, amended.  One pointer-move in pointer mode emits one redraw per    *)
(* hovered cell; it reports zero or one hovered cell for every pointer     *)
(* position when the gap is positive, and when the gap is 0 for every      *)
(* pointer position that is not on an edge two cells share; on a shared    *)
(* edge it reports every cell whose closed rectangle holds the pointer, at *)
(* most four.                                                              *)
(***************************************************************************)
C31_AtMostOneOffSharedEdges ==
  lastEvent.kind = "canvasmove" =>
     /\ Len(redraws) = Cardinality(canvas.hovered)
     /\ ~OnSharedEdge => Len(redraws) <= 1
     /\ OnSharedEdge => (Len(redraws) >= 1 /\ Len(redraws) <= 4)

\* a pointer on the right edge of the first cell of a grid with a gap and
\* at least two columns: one cell is hovered
C31_OnCellEdgeWithGap ==
  /\ lastEvent.kind = "canvasmove"
  /\ r.r_gap > 0
  /\ r.r_row_la_num >= 2
  /\ lastEvent.x = r.r_gap + r.r_width
  /\ canvas.hovered = {<<0, 0>>}
  /\ Len(redraws) = 1

(***************************************************************************)
(* Element tracking over an element with a committed offset: the grid of   *)
(* MaxGrid x MaxGrid square cells in element-tracking mode, one child of   *)
(* size 0 x 0 whose inline transform is translate3d(Xpx, Ypx, 0px) with    *)
(* X and Y in 0..MaxTrack.                                                 *)
(***************************************************************************)
ChildCommitted ==
  [offsetWidth : {0}, offsetHeight : {0},
   transform : {T3d(x, y) : x \in 0..MaxTrack, y \in 0..MaxTrack},
   position : {"static"}]

InitSnap ==
  /\ SetupOf({[p EXCEPT !.pointer = FALSE] : p \in PropsInit}, ChildCommitted)
  /\ props.rows = MaxGrid /\ props.cols = MaxGrid
  /\ props.aspectRatio = 1
  /\ Len(children) = 1
  /\ probe = NoProbe

NextSnap == Mount \/ BoxMouseMove

SpecSnap == InitSnap /\ [][NextSnap]_vars

(***************************************************************************)
(* C32.  For every non-negative pixel offset (x, y) and gap >= 0, the      *)
(* top-left cell the element-tracking listener snaps a rectangle at (x, y) *)
(* to is the cell the render pass decoded for the element committed at     *)
(* (x, y): floor(x / (cellWidth + gap)) = floor((x - gap) / (cellWidth +   *)
(* gap)), and likewise for y.                                              *)
(***************************************************************************)
C32_TrackerAndPassSnapToSameCell ==
  (/\ lastEvent.kind = "boxmove"
   /\ lastEvent.target = "element"
   /\ Len(placements) = 1
   /\ placements[1].kind = "offset"
   /\ <<lastEvent.x, lastEvent.y>> = OffsetOf(pass.transforms[1])) =>
     LET pitchX == r.r_width + r.r_gap
         pitchY == r.r_height + r.r_gap
         column == (redraws[1].left[1] - r.r_gap) \div pitchX
         row == (redraws[1].top[1] - r.r_gap) \div pitchY
     IN  /\ <<row, column>> = placements[1].fro
         /\ lastEvent.x \div pitchX = (lastEvent.x - r.r_gap) \div pitchX
         /\ lastEvent.y \div pitchY = (lastEvent.y - r.r_gap) \div pitchY

====
